---- MODULE Spec2Model ----
(***************************************************************************)
(* The orchestrator core of trident (core/orchestrator_core.go): the       *)
(* in-memory catalogs of backends, storage classes and volumes, the        *)
(* persistent store they mirror, the storage arrays behind the backends,   *)
(* and the write-ahead volume transactions.                                *)
(*                                                                         *)
(* Every public operation is one action.  A handler is a function from a   *)
(* world (memory + store + arrays) to the SET of worlds it can end in:     *)
(* each call to an external collaborator (persistent store, backend        *)
(* driver) may succeed, fail without effect, or be the point where the     *)
(* process dies.  Go map iteration order and rand.Perm are choices.        *)
(***************************************************************************)
EXTENDS Integers, Sequences, FiniteSets, TLC

VARIABLES
    backends,        \* o.backends: backend name -> backend object (heap id)
    heap,            \* the StorageBackend objects, with their pools
    storageClasses,  \* o.storageClasses: class name -> member pools <<id, pool>>
    volumes,         \* o.volumes: volume name -> [cfg, bobj, pool]
    bootstrapped,    \* o.bootstrapped
    sBackends,       \* persistent store: backend name -> [online, cfg]
    sClasses,        \* persistent store: storage class names
    sVolumes,        \* persistent store: volume name -> [cfg, backend, pool]
    sTxns,           \* persistent store: volume transactions [op, name]
    array,           \* volumes that exist on the storage arrays: <<backend, volume>>
    last,            \* the last operation: its arguments, results and external calls
    faults,          \* failed external calls and process deaths so far
    mutex,           \* o.mutex: the caller that holds it, if any
    threads          \* the concurrent callers: where each one is in its operation

vars == <<backends, heap, storageClasses, volumes, bootstrapped,
          sBackends, sClasses, sVolumes, sTxns, array, last, faults,
          mutex, threads>>

----------------------------------------------------------------------------
(* Bounds of the model *)

MaxFaults == 2
MaxObjs == 3

BackendNames == {"b1", "b2"}
PoolNames == {"p1", "p2"}
VolumeNames == {"v1", "v2"}
ClassNames == {"gold", "basic"}
ObjIds == 1 .. MaxObjs

----------------------------------------------------------------------------
(* Values *)

None == "-"
File == "file"
Block == "block"
ProtocolAny == "any"
ReadWriteOnce == "ReadWriteOnce"
ReadOnlyMany == "ReadOnlyMany"
ReadWriteMany == "ReadWriteMany"
OpAddVolume == "addVolume"
OpDeleteVolume == "deleteVolume"

Put(f, k, v) == [x \in DOMAIN f \cup {k} |-> IF x = k THEN v ELSE f[x]]
Del(f, k) == [x \in DOMAIN f \ {k} |-> f[x]]
Empty == [x \in {} |-> None]

\* the backend configurations and volume requests the specification submits
CfgSsd == [protocol |-> File, pools |-> [p \in {"p1"} |-> "ssd"]]
CfgHdd == [protocol |-> File, pools |-> [p \in {"p1"} |-> "hdd"]]
CfgBlk == [protocol |-> Block, pools |-> [p \in {"p1"} |-> "ssd"]]
CfgAlt == [protocol |-> File, pools |-> [p \in {"p2"} |-> "ssd"]]
SpecConfigs == {CfgSsd}

VolumeConfig(n, sc, pr, am) ==
    [name |-> n, storageClass |-> sc, protocol |-> pr, accessMode |-> am]
SpecVolumes == {"v1"}
SpecClasses == {"gold"}
SpecRequests ==
    {VolumeConfig(n, sc, ProtocolAny, ReadWriteOnce) : n \in SpecVolumes, sc \in SpecClasses}

----------------------------------------------------------------------------
(* Worlds and external calls *)

Event(call, op, b, v, ok) == [call |-> call, op |-> op, b |-> b, v |-> v, ok |-> ok]

\* the world a handler starts from
World ==
    [backends |-> backends, heap |-> heap, storageClasses |-> storageClasses,
     volumes |-> volumes, bootstrapped |-> bootstrapped,
     sBackends |-> sBackends, sClasses |-> sClasses, sVolumes |-> sVolumes,
     sTxns |-> sTxns, array |-> array, faults |-> faults,
     calls |-> <<>>, err |-> FALSE, crashed |-> FALSE,
     found |-> FALSE, ret |-> {}, loc |-> {}, txn |-> {}, req |-> {},
     msgs |-> <<>>]

\* sequencing: the rest of a handler runs in every world the process survived
Bind(S, F(_)) == UNION {IF w.crashed THEN {w} ELSE F(w) : w \in S}

Logged(w, e) == [w EXCEPT !.calls = Append(@, e)]

\* one call to an external collaborator: it succeeds (done), fails without
\* effect, or the process dies before it is made
Extern(w, call, op, b, v, done) ==
    {[Logged(done, Event(call, op, b, v, TRUE)) EXCEPT !.err = FALSE]}
    \cup (IF w.faults < MaxFaults
          THEN {[Logged(w, Event(call, op, b, v, FALSE))
                    EXCEPT !.err = TRUE, !.faults = @ + 1]}
          ELSE {})
    \cup (IF w.faults < MaxFaults
          THEN {[w EXCEPT !.crashed = TRUE, !.faults = @ + 1]}
          ELSE {})

\* a store call on a key the store does not hold: the key-not-found error,
\* or the process dies before the call is made
KeyError(w, call, b, v) ==
    {[Logged(w, Event(call, "KeyError", b, v, FALSE)) EXCEPT !.err = TRUE]}
    \cup (IF w.faults < MaxFaults
          THEN {[w EXCEPT !.crashed = TRUE, !.faults = @ + 1]}
          ELSE {})

\* a nil pointer dereference: the process dies
Panic(w) == [w EXCEPT !.crashed = TRUE]

Return(w, err) == [w EXCEPT !.err = err]

----------------------------------------------------------------------------
(* The persistent store client (package persistent_store) *)

Txn(op, name) == [op |-> op, name |-> name]

\* the transactions recorded for a volume name
TxnsFor(txns, name) == {t \in txns : t.name = name}

\* GetExistingVolumeTransaction: a transaction recorded for the name, if any;
\* txn holds the transaction returned
GetExistingVolumeTransaction(w, name) ==
    IF TxnsFor(w.sTxns, name) = {}
    THEN Extern(w, "GetExistingVolumeTransaction", None, None, name,
                [w EXCEPT !.txn = {}])
    ELSE UNION {Extern(w, "GetExistingVolumeTransaction", t.op, None, name,
                       [w EXCEPT !.txn = {t}]) : t \in TxnsFor(w.sTxns, name)}

\* the operation of the transaction recorded for a name, or None
ExistingOp(txns, name) ==
    IF TxnsFor(txns, name) = {} THEN None
    ELSE (CHOOSE t \in TxnsFor(txns, name) : TRUE).op

\* AddVolumeTransaction: the transactions are a flat map keyed by the volume
\* name, so t replaces what was recorded for its name (the event names, for
\* its backend, the operation of the transaction replaced)
AddVolumeTransaction(w, t) ==
    Extern(w, "AddVolumeTransaction", t.op, ExistingOp(w.sTxns, t.name), t.name,
           [w EXCEPT !.sTxns = (@ \ TxnsFor(@, t.name)) \cup {t}])

\* DeleteVolumeTransaction: the key of t's name is removed
DeleteVolumeTransaction(w, t) ==
    IF TxnsFor(w.sTxns, t.name) = {}
    THEN KeyError(w, "DeleteVolumeTransaction", None, t.name)
    ELSE Extern(w, "DeleteVolumeTransaction", t.op, None, t.name,
                [w EXCEPT !.sTxns = @ \ TxnsFor(@, t.name)])

StoreAddVolume(w, vol) ==
    Extern(w, "store.AddVolume", None, w.heap[vol.bobj].name, vol.cfg.name,
           [w EXCEPT !.sVolumes = Put(@, vol.cfg.name,
                [cfg |-> vol.cfg, backend |-> w.heap[vol.bobj].name, pool |-> vol.pool])])

DeleteVolumeIgnoreNotFound(w, vol) ==
    Extern(w, "store.DeleteVolumeIgnoreNotFound", None, None, vol.cfg.name,
           [w EXCEPT !.sVolumes = Del(@, vol.cfg.name)])

\* the configuration a backend object was built from (MarshalConfig)
MarshalConfig(b) ==
    [protocol |-> b.protocol, pools |-> [p \in DOMAIN b.pools |-> b.pools[p].media]]

PersistentBackend(b) == [online |-> b.online, cfg |-> MarshalConfig(b)]

StoreAddBackend(w, b) ==
    Extern(w, "store.AddBackend", None, b.name, None,
           [w EXCEPT !.sBackends = Put(@, b.name, PersistentBackend(b))])

StoreUpdateBackend(w, b) ==
    Extern(w, "store.UpdateBackend", None, b.name, None,
           [w EXCEPT !.sBackends = Put(@, b.name, PersistentBackend(b))])

StoreDeleteBackend(w, b) ==
    IF b.name \notin DOMAIN w.sBackends
    THEN KeyError(w, "store.DeleteBackend", b.name, None)
    ELSE Extern(w, "store.DeleteBackend", None, b.name, None,
                [w EXCEPT !.sBackends = Del(@, b.name)])

StoreAddStorageClass(w, sc) ==
    Extern(w, "store.AddStorageClass", sc, None, None,
           [w EXCEPT !.sClasses = @ \cup {sc}])

StoreDeleteStorageClass(w, sc) ==
    IF sc \notin w.sClasses
    THEN KeyError(w, "store.DeleteStorageClass", None, sc)
    ELSE Extern(w, "store.DeleteStorageClass", sc, None, None,
                [w EXCEPT !.sClasses = @ \ {sc}])

\* a read of a whole index: besides the outcomes of every call, the
\* key-not-found error when the store holds nothing under the index
ReadIndex(w, call, empty) ==
    Extern(w, call, None, None, None, w)
    \cup (IF empty
          THEN {[Logged(w, Event(call, "KeyError", None, None, FALSE)) EXCEPT !.err = TRUE]}
          ELSE {})

GetStorageClasses(w) == ReadIndex(w, "GetStorageClasses", w.sClasses = {})
GetVolumes(w) == ReadIndex(w, "GetVolumes", w.sVolumes = Empty)
GetVolumeTransactions(w) == ReadIndex(w, "GetVolumeTransactions", w.sTxns = {})

----------------------------------------------------------------------------
(* Backends, pools and drivers (packages storage and storage/factory) *)

\* a fresh backend object for a configuration: online, its pools empty
NewBackend(name, cfg) ==
    [name |-> name, online |-> TRUE, protocol |-> cfg.protocol,
     pools |-> [p \in DOMAIN cfg.pools |->
                  [media |-> cfg.pools[p], classes |-> {}, vols |-> Empty]]]

NewStorageBackendForConfig(w, name) ==
    Extern(w, "NewStorageBackendForConfig", None, name, None, w)

HasVolumes(b) == \E p \in DOMAIN b.pools : DOMAIN b.pools[p].vols # {}

NewVolume(cfg, bobj, pool) == [cfg |-> cfg, bobj |-> bobj, pool |-> pool]

\* Pool.AddVolume: the pool's volume map gets the volume under its name
PoolAddVolume(h, vol) ==
    [h EXCEPT ![vol.bobj].pools[vol.pool].vols = Put(@, vol.cfg.name, vol.cfg)]

\* Driver.Destroy(internal name): no error for a volume the array does not hold
DriverDestroy(w, bname, vname) ==
    Extern(w, "Destroy", None, bname, vname,
           [w EXCEPT !.array = @ \ {<<bname, vname>>}])

\* StorageBackend.RemoveVolume: destroy on the array, then drop the name
\* from the volume's pool
BackendRemoveVolume(w, vol) ==
    Extern(w, "backend.RemoveVolume", None, w.heap[vol.bobj].name, vol.cfg.name,
           [w EXCEPT !.array = @ \ {<<w.heap[vol.bobj].name, vol.cfg.name>>},
                     !.heap[vol.bobj].pools[vol.pool].vols = Del(@, vol.cfg.name)])

\* StorageBackend.AddVolume on a pool <<id, pool>>: the driver creates the
\* volume and the pool records it; or an error; or (nil, nil) when the pool
\* cannot hold the volume.  loc holds the volume returned, if any.
BackendAddVolume(w, cfg, pl) ==
    LET bname == w.heap[pl[1]].name
        vol == NewVolume(cfg, pl[1], pl[2])
    IN  {[x EXCEPT !.loc = IF x.err THEN {} ELSE {vol}] :
            x \in Extern(w, "backend.AddVolume", pl[2], bname, cfg.name,
                         [w EXCEPT !.array = @ \cup {<<bname, cfg.name>>},
                                   !.heap = PoolAddVolume(@, vol)])}
        \cup (IF w.faults < MaxFaults
              THEN {[Logged(w, Event("backend.AddVolume", "nil", bname, cfg.name, FALSE))
                        EXCEPT !.err = FALSE, !.loc = {}, !.faults = @ + 1]}
              ELSE {})

----------------------------------------------------------------------------
(* Storage classes (package storage_class) *)

\* the class's predicate over a pool's attributes
Matches(sc, pool) == sc = "gold" => pool.media = "ssd"

\* the pools of backend object id that satisfy the class
MatchingPools(h, sc, id) == {<<id, p>> : p \in {q \in DOMAIN h[id].pools : Matches(sc, h[id].pools[q])}}

\* CheckAndAddBackend: the class lists the matching pools, each pool the class
CheckAndAddBackend(w, sc, id) ==
    [w EXCEPT !.storageClasses[sc] = @ \cup MatchingPools(w.heap, sc, id),
              !.heap[id].pools = [p \in DOMAIN @ |->
                    IF <<id, p>> \in MatchingPools(w.heap, sc, id)
                    THEN [@[p] EXCEPT !.classes = @ \cup {sc}] ELSE @[p]]]

RemovePoolsForBackend(w, sc, id) ==
    [w EXCEPT !.storageClasses[sc] = {m \in @ : m[1] # id}]

GetStoragePoolsForProtocol(w, sc, p) ==
    {m \in w.storageClasses[sc] : p = ProtocolAny \/ w.heap[m[1]].protocol = p}

----------------------------------------------------------------------------
(* The orchestrator *)

\* the heap cell a new backend object gets
FreshId(w) == CHOOSE i \in ObjIds \ DOMAIN w.heap : \A j \in ObjIds \ DOMAIN w.heap : i <= j

\* "ok", "err" (the update is rejected) or "panic" (a volume of the old
\* backend names a storage class that is no longer registered)
\* validateBackendUpdate without the check of the storage classes in use: C15
\* tells it from validateBackendUpdate
validateBackendUpdate_NoClassCheck(w, oldBackend, newBackend) ==
    LET protocolChanged == oldBackend.protocol # newBackend.protocol
        usedPools == {p \in DOMAIN oldBackend.pools : DOMAIN oldBackend.pools[p].vols # {}}
        poolMissing == \E p \in usedPools : p \notin DOMAIN newBackend.pools
    IN  IF protocolChanged \/ poolMissing THEN "err" ELSE "ok"

validateBackendUpdate(w, oldBackend, newBackend) ==
    LET protocolChanged == oldBackend.protocol # newBackend.protocol
        usedPools == {p \in DOMAIN oldBackend.pools : DOMAIN oldBackend.pools[p].vols # {}}
        poolMissing == \E p \in usedPools : p \notin DOMAIN newBackend.pools
        \* <<pool, storage class>> of every volume of the old backend
        inUse == UNION {{<<p, oldBackend.pools[p].vols[n].storageClass>> :
                            n \in DOMAIN oldBackend.pools[p].vols} : p \in usedPools}
        checked == {u \in inUse : u[1] \in DOMAIN newBackend.pools}
        nilClass == \E u \in checked : u[2] \notin DOMAIN w.storageClasses
        unsatisfied == \E u \in checked : ~Matches(u[2], newBackend.pools[u[1]])
    IN  IF nilClass THEN "panic"
        ELSE IF protocolChanged \/ poolMissing \/ unsatisfied THEN "err"
        ELSE "ok"

updateBackendOnPersistentStore(w, backend, newBackend) ==
    IF w.bootstrapped
    THEN IF newBackend THEN StoreAddBackend(w, backend) ELSE StoreUpdateBackend(w, backend)
    ELSE {Return(w, FALSE)}

RECURSIVE UpdateClasses(_, _, _, _)
\* AddStorageBackend's loop over o.storageClasses
UpdateClasses(w, classes, orig, id) ==
    IF classes = {} THEN w
    ELSE LET sc == CHOOSE c \in classes : TRUE
             w1 == IF orig = 0 THEN w ELSE RemovePoolsForBackend(w, sc, orig)
         IN  UpdateClasses(CheckAndAddBackend(w1, sc, id), classes \ {sc}, orig, id)

\* AddStorageBackend leaving the volumes with the backend it replaces: C25
\* tells it from InstallBackend
InstallBackend_LeavesVolumes(w, sb, orig) ==
    IF ObjIds \ DOMAIN w.heap = {} THEN {}
    ELSE
    LET id == FreshId(w)
        w1 == [w EXCEPT !.heap = Put(@, id, sb), !.backends = Put(@, sb.name, id)]
    IN  {Return(UpdateClasses(w1, DOMAIN w1.storageClasses, orig, id), FALSE)}

\* AddStorageBackend after the store was written: register the new object,
\* update the classes, and move the old object's volumes to the new one
InstallBackend(w, sb, orig) ==
    IF ObjIds \ DOMAIN w.heap = {} THEN {}
    ELSE
    LET id == FreshId(w)
        w1 == [w EXCEPT !.heap = Put(@, id, sb), !.backends = Put(@, sb.name, id)]
        w2 == UpdateClasses(w1, DOMAIN w1.storageClasses, orig, id)
        old == w.heap[orig]
        moved == IF orig = 0 THEN {} ELSE {p \in DOMAIN old.pools : DOMAIN old.pools[p].vols # {}}
    IN  IF orig = 0 THEN {Return(w2, FALSE)}
        ELSE {[w2 EXCEPT
                 !.heap[id].pools = [p \in DOMAIN @ |->
                     IF p \in moved
                     THEN [@[p] EXCEPT !.vols = [n \in DOMAIN @ \cup DOMAIN old.pools[p].vols |->
                               IF n \in DOMAIN old.pools[p].vols THEN old.pools[p].vols[n] ELSE @[n]]]
                     ELSE @[p]],
                 !.volumes = [n \in DOMAIN @ |->
                     IF @[n].bobj = orig /\ n \in DOMAIN old.pools[@[n].pool].vols
                     THEN [@[n] EXCEPT !.bobj = id] ELSE @[n]],
                 !.err = FALSE]}

AddStorageBackend(w, name, cfg) ==
    Bind(NewStorageBackendForConfig(w, name), LAMBDA w1:
        IF w1.err THEN {w1}
        ELSE LET orig == IF name \in DOMAIN w1.backends THEN w1.backends[name] ELSE 0
                 sb == NewBackend(name, cfg)
                 valid == IF orig = 0 THEN "ok"
                          ELSE validateBackendUpdate(w1, w1.heap[orig], sb)
             IN  IF valid = "panic" THEN {Panic(w1)}
                 ELSE IF valid = "err" THEN {Return(w1, TRUE)}
                 ELSE Bind(updateBackendOnPersistentStore(w1, sb, orig = 0), LAMBDA w2:
                          IF w2.err THEN {w2} ELSE InstallBackend(w2, sb, orig)))

RECURSIVE RemoveFromClasses(_, _, _)
\* OfflineBackend's loop over the classes its pools were listed in
RemoveFromClasses(w, classes, id) ==
    IF classes = {} THEN w
    ELSE LET sc == CHOOSE c \in classes : TRUE
         IN  RemoveFromClasses(RemovePoolsForBackend(w, sc, id), classes \ {sc}, id)

OfflineBackend(w, backendName) ==
    IF backendName \notin DOMAIN w.backends THEN {[w EXCEPT !.found = FALSE, !.err = FALSE]}
    ELSE
    LET id == w.backends[backendName]
        listed == UNION {w.heap[id].pools[p].classes : p \in DOMAIN w.heap[id].pools}
        w1 == [w EXCEPT !.found = TRUE,
                        !.heap[id].online = FALSE,
                        !.heap[id].pools = [p \in DOMAIN @ |-> [@[p] EXCEPT !.classes = {}]]]
    IN  IF \E sc \in listed : sc \notin DOMAIN w.storageClasses THEN {Panic(w1)}
        ELSE LET w2 == RemoveFromClasses(w1, listed, id)
                 backend == w2.heap[id]
             IN  IF ~HasVolumes(backend)
                 THEN StoreDeleteBackend([w2 EXCEPT !.backends = Del(@, backendName)], backend)
                 ELSE StoreUpdateBackend(w2, backend)

Registered(w) == {w.backends[n] : n \in DOMAIN w.backends}

RECURSIVE CheckBackends(_, _, _)
\* CheckAndAddBackend for every backend object of ids
CheckBackends(w, sc, ids) ==
    IF ids = {} THEN w
    ELSE LET id == CHOOSE i \in ids : TRUE
         IN  CheckBackends(CheckAndAddBackend(w, sc, id), sc, ids \ {id})

AddStorageClass(w, sc) ==
    IF sc \in DOMAIN w.storageClasses THEN {Return(w, TRUE)}
    ELSE Bind(StoreAddStorageClass(w, sc), LAMBDA w1:
            IF w1.err THEN {w1}
            ELSE {Return(CheckBackends([w1 EXCEPT !.storageClasses = Put(@, sc, {})],
                                       sc, Registered(w1)), FALSE)})

DeleteStorageClass(w, scName) ==
    IF scName \notin DOMAIN w.storageClasses THEN {[w EXCEPT !.found = FALSE, !.err = TRUE]}
    ELSE Bind(StoreDeleteStorageClass([w EXCEPT !.found = TRUE], scName), LAMBDA w1:
            IF w1.err THEN {w1}
            ELSE {[w1 EXCEPT
                     !.storageClasses = Del(@, scName),
                     !.heap = [i \in DOMAIN @ |-> [@[i] EXCEPT !.pools = [p \in DOMAIN @ |->
                                 IF <<i, p>> \in w1.storageClasses[scName]
                                 THEN [@[p] EXCEPT !.classes = @ \ {scName}] ELSE @[p]]]],
                     !.err = FALSE]})

getProtocol(mode) ==
    CASE mode = ReadWriteOnce -> ProtocolAny
      [] mode = ReadOnlyMany -> File
      [] mode = ReadWriteMany -> File
      [] OTHER -> ProtocolAny

ConstructExternal(w, vol) ==
    [cfg |-> vol.cfg, backend |-> w.heap[vol.bobj].name, pool |-> vol.pool]

\* deleteVolume going on after the backend refused to remove the volume: C8
\* tells it from deleteVolume
deleteVolume_Regardless(w, volumeName) ==
    LET volume == w.volumes[volumeName] IN
    Bind(BackendRemoveVolume(w, volume), LAMBDA w1:
        Bind(DeleteVolumeIgnoreNotFound(w1, volume), LAMBDA w2:
            IF w2.err THEN {w2}
            ELSE {[w2 EXCEPT !.volumes = Del(@, volumeName), !.err = FALSE]}))

\* deleteVolume leaving the offline backend registered after the store has
\* dropped it: C14 tells it from deleteVolume
deleteVolume_KeepsBackend(w, volumeName) ==
    LET volume == w.volumes[volumeName] IN
    Bind(BackendRemoveVolume(w, volume), LAMBDA w1:
        IF w1.err THEN {w1}
        ELSE Bind(DeleteVolumeIgnoreNotFound(w1, volume), LAMBDA w2:
            IF w2.err THEN {w2}
            ELSE LET backend == w2.heap[volume.bobj] IN
                 IF ~backend.online /\ ~HasVolumes(backend)
                 THEN Bind(StoreDeleteBackend(w2, backend), LAMBDA w3:
                        IF w3.err THEN {w3}
                        ELSE {[w3 EXCEPT !.volumes = Del(@, volumeName),
                                         !.err = FALSE]})
                 ELSE {[w2 EXCEPT !.volumes = Del(@, volumeName), !.err = FALSE]}))

\* deleteVolume: the volume is removed from its backend, from the store,
\* and from the catalog; an offline backend left without volumes goes too
deleteVolume(w, volumeName) ==
    LET volume == w.volumes[volumeName] IN
    Bind(BackendRemoveVolume(w, volume), LAMBDA w1:
        IF w1.err THEN {w1}
        ELSE Bind(DeleteVolumeIgnoreNotFound(w1, volume), LAMBDA w2:
            IF w2.err THEN {w2}
            ELSE LET backend == w2.heap[volume.bobj] IN
                 IF ~backend.online /\ ~HasVolumes(backend)
                 THEN Bind(StoreDeleteBackend(w2, backend), LAMBDA w3:
                        IF w3.err THEN {w3}
                        ELSE {[w3 EXCEPT !.backends = Del(@, backend.name),
                                         !.volumes = Del(@, volumeName),
                                         !.err = FALSE]})
                 ELSE {[w2 EXCEPT !.volumes = Del(@, volumeName), !.err = FALSE]}))

\* DeleteVolume without the reinsertion: C9 tells it from DeleteVolume
DeleteVolume_NoReinsert(w, volumeName) ==
    IF volumeName \notin DOMAIN w.volumes THEN {[w EXCEPT !.found = FALSE, !.err = TRUE]}
    ELSE
    LET volTxn == Txn(OpDeleteVolume, volumeName)
    IN  Bind(AddVolumeTransaction([w EXCEPT !.found = TRUE], volTxn), LAMBDA w1:
            IF w1.err THEN {w1}
            ELSE Bind(deleteVolume(w1, volumeName), LAMBDA w2:
                IF w2.err THEN {w2}
                ELSE Bind(DeleteVolumeTransaction(w2, volTxn), LAMBDA w3:
                        {Return(w3, FALSE)})))

\* DeleteVolume going on to the backend although its transaction was not
\* persisted: C23 tells it from DeleteVolume
DeleteVolume_Unlogged(w, volumeName) ==
    IF volumeName \notin DOMAIN w.volumes THEN {[w EXCEPT !.found = FALSE, !.err = TRUE]}
    ELSE
    LET volume == w.volumes[volumeName]
        volTxn == Txn(OpDeleteVolume, volumeName)
    IN  Bind(AddVolumeTransaction([w EXCEPT !.found = TRUE], volTxn), LAMBDA w1:
            Bind(deleteVolume(w1, volumeName), LAMBDA w2:
                IF w2.err THEN {w2}
                ELSE Bind(DeleteVolumeTransaction(w2, volTxn), LAMBDA w3:
                    IF w3.err
                    THEN {[w3 EXCEPT !.volumes = Put(@, volumeName, volume), !.err = FALSE]}
                    ELSE {w3})))

DeleteVolume(w, volumeName) ==
    IF volumeName \notin DOMAIN w.volumes THEN {[w EXCEPT !.found = FALSE, !.err = TRUE]}
    ELSE
    LET volume == w.volumes[volumeName]
        volTxn == Txn(OpDeleteVolume, volumeName)
    IN  Bind(AddVolumeTransaction([w EXCEPT !.found = TRUE], volTxn), LAMBDA w1:
            IF w1.err THEN {w1}
            ELSE Bind(deleteVolume(w1, volumeName), LAMBDA w2:
                IF w2.err THEN {w2}
                ELSE Bind(DeleteVolumeTransaction(w2, volTxn), LAMBDA w3:
                    IF w3.err
                    THEN {[w3 EXCEPT !.volumes = Put(@, volumeName, volume), !.err = FALSE]}
                    ELSE {w3})))

RECURSIVE DestroyOnBackends(_, _, _)
\* rollBackTransaction's loop over o.backends, in any order, to the first error
DestroyOnBackends(w, volumeName, names) ==
    IF names = {} THEN {Return(w, FALSE)}
    ELSE UNION {
        IF ~w.heap[w.backends[bn]].online
        THEN DestroyOnBackends(w, volumeName, names \ {bn})
        ELSE Bind(DriverDestroy(w, bn, volumeName), LAMBDA w1:
                IF w1.err THEN {w1}
                ELSE DestroyOnBackends(w1, volumeName, names \ {bn}))
        : bn \in names}

\* rollBackTransaction deleting the transaction whatever the clean-up
\* returned: C7 tells it from rollBackTransaction
rollBackTransaction_Regardless(w, v) ==
    Bind(IF v.name \in DOMAIN w.volumes
         THEN deleteVolume(w, v.name)
         ELSE IF v.op = OpAddVolume
         THEN DestroyOnBackends(w, v.name, DOMAIN w.backends)
         ELSE {Return(w, FALSE)}, LAMBDA w1:
        DeleteVolumeTransaction(w1, v))

rollBackTransaction(w, v) ==
    IF v.op = OpAddVolume
    THEN Bind(IF v.name \in DOMAIN w.volumes
              THEN deleteVolume(w, v.name)
              ELSE DestroyOnBackends(w, v.name, DOMAIN w.backends), LAMBDA w1:
            IF w1.err THEN {w1} ELSE DeleteVolumeTransaction(w1, v))
    ELSE Bind(IF v.name \in DOMAIN w.volumes
              THEN deleteVolume(w, v.name)
              ELSE {Return(w, FALSE)}, LAMBDA w1:
            IF w1.err THEN {w1} ELSE DeleteVolumeTransaction(w1, v))

\* the entry of errorMessages for a pool that refused the volume
Message(w, cfg, pl) == [volume |-> cfg.name, pool |-> pl[2], backend |-> w.heap[pl[1]].name]

RECURSIVE TryPools(_, _, _)
\* AddVolume's loop over the candidate pools in a random order: the first
\* pool that creates the volume ends it; err, loc (the volume created, when
\* the store refused it), ret and msgs are the handler's err, vol,
\* externalVol and errorMessages
TryPools(w, cfg, pools) ==
    IF pools = {} THEN {[w EXCEPT !.err = TRUE, !.loc = {}, !.ret = {}]}
    ELSE UNION {
        Bind(BackendAddVolume(w, cfg, pl), LAMBDA w1:
            IF w1.loc # {} /\ ~w1.err
            THEN LET vcfg == IF cfg.protocol = ProtocolAny
                             THEN [cfg EXCEPT !.protocol = w1.heap[pl[1]].protocol]
                             ELSE cfg
                     vol == NewVolume(vcfg, pl[1], pl[2])
                     w2 == [w1 EXCEPT !.heap = PoolAddVolume(@, vol)]
                 IN  Bind(StoreAddVolume(w2, vol), LAMBDA w3:
                        IF w3.err THEN {[w3 EXCEPT !.loc = {vol}]}
                        ELSE {[w3 EXCEPT !.volumes = Put(@, cfg.name, vol),
                                         !.ret = {ConstructExternal(w3, vol)},
                                         !.loc = {vol},
                                         !.err = FALSE]})
            ELSE TryPools([w1 EXCEPT !.msgs = IF w1.err
                                              THEN Append(@, Message(w1, cfg, pl))
                                              ELSE @],
                          cfg, pools \ {pl}))
        : pl \in pools}

\* the recovery function leaving the catalog as it is: C6 tells it from
\* AddVolumeRecovery
AddVolumeRecovery_KeepsEntry(w, cfg) ==
    LET volTxn == Txn(OpAddVolume, cfg.name)
        err == w.err
    IN  Bind(IF err /\ w.loc # {}
             THEN BackendRemoveVolume(w, CHOOSE vol \in w.loc : TRUE)
             ELSE {Return(w, FALSE)}, LAMBDA w1:
            IF w1.err THEN {[w1 EXCEPT !.ret = {}]}
            ELSE Bind(DeleteVolumeTransaction(w1, volTxn), LAMBDA w2:
                    IF w2.err THEN {[w2 EXCEPT !.ret = {}]} ELSE {Return(w2, err)}))

\* AddVolume's deferred recovery function; w.err and w.loc are err and vol
\* at the return that runs it
AddVolumeRecovery(w, cfg) ==
    LET volTxn == Txn(OpAddVolume, cfg.name)
        err == w.err
        GiveUp(x) == [x EXCEPT !.volumes = Del(@, cfg.name), !.ret = {}, !.err = TRUE]
    IN  Bind(IF err /\ w.loc # {}
             THEN BackendRemoveVolume(w, CHOOSE vol \in w.loc : TRUE)
             ELSE {Return(w, FALSE)}, LAMBDA w1:
            IF w1.err THEN {GiveUp(w1)}
            ELSE Bind(DeleteVolumeTransaction(w1, volTxn), LAMBDA w2:
                    IF w2.err THEN {GiveUp(w2)} ELSE {Return(w2, err)}))

AddVolume(w, volumeConfig) ==
    IF volumeConfig.name \in DOMAIN w.volumes THEN {Return(w, TRUE)}
    ELSE IF volumeConfig.storageClass \notin DOMAIN w.storageClasses THEN {Return(w, TRUE)}
    ELSE
    LET protocol == IF volumeConfig.protocol = ProtocolAny
                    THEN getProtocol(volumeConfig.accessMode)
                    ELSE volumeConfig.protocol
        pools == GetStoragePoolsForProtocol(w, volumeConfig.storageClass, volumeConfig.protocol)
        volTxn == Txn(OpAddVolume, volumeConfig.name)
    IN  IF pools = {} THEN {Return(w, TRUE)}
        ELSE Bind(GetExistingVolumeTransaction(w, volumeConfig.name), LAMBDA w1:
            IF w1.err THEN {w1}
            ELSE Bind(IF w1.txn # {}
                      THEN rollBackTransaction(w1, CHOOSE oldTxn \in w1.txn : TRUE)
                      ELSE {w1}, LAMBDA w2:
                IF w2.err THEN {w2}
                ELSE Bind(AddVolumeTransaction(w2, volTxn), LAMBDA w3:
                    IF w3.err THEN {w3}
                    ELSE Bind(TryPools(w3, volumeConfig, pools), LAMBDA w4:
                            AddVolumeRecovery(w4, volumeConfig)))))

----------------------------------------------------------------------------
(* Bootstrap *)

MaxBootstrapAttempts == 10

LastCall(w) == w.calls[Len(w.calls)]

\* GetBackends can also fail with context.DeadlineExceeded
GetBackends(w) ==
    ReadIndex(w, "GetBackends", w.sBackends = Empty)
    \cup (IF w.faults < MaxFaults
          THEN {[Logged(w, Event("GetBackends", "DeadlineExceeded", None, None, FALSE))
                    EXCEPT !.err = TRUE, !.faults = @ + 1]}
          ELSE {})

RECURSIVE GetBackendsRetry(_, _)
GetBackendsRetry(w, tries) ==
    Bind(GetBackends(w), LAMBDA w1:
        IF w1.err /\ LastCall(w1).op = "DeadlineExceeded" /\ tries < MaxBootstrapAttempts
        THEN GetBackendsRetry(w1, tries + 1)
        ELSE {w1})

RECURSIVE AddPersistentBackends(_, _)
AddPersistentBackends(w, names) ==
    IF names = {} THEN {Return(w, FALSE)}
    ELSE LET n == CHOOSE x \in names : TRUE IN
         Bind(AddStorageBackend(w, n, w.sBackends[n].cfg), LAMBDA w1:
            IF w1.err THEN {w1}
            ELSE AddPersistentBackends(
                    [w1 EXCEPT !.heap[w1.backends[n]].online = w1.sBackends[n].online],
                    names \ {n}))

bootstrapBackends(w) ==
    Bind(GetBackendsRetry(w, 0), LAMBDA w1:
        IF w1.err THEN {w1} ELSE AddPersistentBackends(w1, DOMAIN w1.sBackends))

RECURSIVE LoadClasses(_, _)
LoadClasses(w, classes) ==
    IF classes = {} THEN w
    ELSE LET sc == CHOOSE c \in classes : TRUE
         IN  LoadClasses(CheckBackends([w EXCEPT !.storageClasses = Put(@, sc, {})],
                                       sc, Registered(w)), classes \ {sc})

bootstrapStorageClasses(w) ==
    Bind(GetStorageClasses(w), LAMBDA w1:
        IF w1.err THEN {w1} ELSE {Return(LoadClasses(w1, w1.sClasses), FALSE)})

RECURSIVE LoadVolumes(_, _)
LoadVolumes(w, names) ==
    IF names = {} THEN w
    ELSE LET n == CHOOSE x \in names : TRUE
             v == w.sVolumes[n]
             vol == NewVolume(v.cfg, w.backends[v.backend], v.pool)
         IN  LoadVolumes([w EXCEPT !.heap = PoolAddVolume(@, vol),
                                   !.volumes = Put(@, n, vol)], names \ {n})

bootstrapVolumes(w) ==
    Bind(GetVolumes(w), LAMBDA w1:
        IF w1.err THEN {w1}
        ELSE IF \E n \in DOMAIN w1.sVolumes :
                   \/ w1.sVolumes[n].backend \notin DOMAIN w1.backends
                   \/ w1.sVolumes[n].pool \notin
                          DOMAIN w1.heap[w1.backends[w1.sVolumes[n].backend]].pools
             THEN {Return(w1, TRUE)}
             ELSE {Return(LoadVolumes(w1, DOMAIN w1.sVolumes), FALSE)})

RECURSIVE RollBackAll(_, _)
RollBackAll(w, volTxns) ==
    IF volTxns = {} THEN {Return(w, FALSE)}
    ELSE UNION {Bind(rollBackTransaction(w, v), LAMBDA w1:
                    IF w1.err THEN {w1} ELSE RollBackAll(w1, volTxns \ {v}))
                : v \in volTxns}

\* an error reading the transactions is logged and the list is empty
bootstrapVolTxns(w) ==
    Bind(GetVolumeTransactions(w), LAMBDA w1:
        RollBackAll(w1, IF w1.err THEN {} ELSE w1.sTxns))

EmptyOffline(w) ==
    {n \in DOMAIN w.backends :
        ~w.heap[w.backends[n]].online /\ ~HasVolumes(w.heap[w.backends[n]])}

RECURSIVE CleanOffline(_, _)
\* bootstrap's loop that drops the offline backends without volumes
CleanOffline(w, names) ==
    IF names = {} THEN {Return(w, FALSE)}
    ELSE UNION {Bind(StoreDeleteBackend([w EXCEPT !.backends = Del(@, n)],
                                        w.heap[w.backends[n]]), LAMBDA w1:
                    IF w1.err THEN {w1} ELSE CleanOffline(w1, names \ {n}))
                : n \in names}

\* the error a step returned is the store's key-not-found error itself
IsKeyError(w) ==
    /\ w.err
    /\ LastCall(w).op = "KeyError"
    /\ LastCall(w).call \in {"GetBackends", "GetStorageClasses", "GetVolumes"}

\* the error of a step that ends bootstrap
Fatal(w) == w.err /\ ~IsKeyError(w)

bootstrap(w) ==
    Bind(bootstrapBackends(w), LAMBDA w1:
      IF Fatal(w1) THEN {w1}
      ELSE Bind(bootstrapStorageClasses(w1), LAMBDA w2:
        IF Fatal(w2) THEN {w2}
        ELSE Bind(bootstrapVolumes(w2), LAMBDA w3:
          IF Fatal(w3) THEN {w3}
          ELSE Bind(bootstrapVolTxns(w3), LAMBDA w4:
            IF Fatal(w4) THEN {w4} ELSE CleanOffline(w4, EmptyOffline(w4))))))

Bootstrap(w) ==
    Bind(bootstrap(w), LAMBDA w1:
        IF w1.err THEN {w1} ELSE {[w1 EXCEPT !.bootstrapped = TRUE]})

----------------------------------------------------------------------------
(* The state machine *)

\* a new process: NewTridentOrchestrator
Fresh(w) ==
    [w EXCEPT !.backends = Empty, !.heap = Empty, !.storageClasses = Empty,
              !.volumes = Empty, !.bootstrapped = FALSE]

\* backend objects that nothing refers to are garbage
Reachable(w) ==
    Registered(w) \cup {w.volumes[n].bobj : n \in DOMAIN w.volumes}
    \cup {m[1] : m \in UNION {w.storageClasses[sc] : sc \in DOMAIN w.storageClasses}}

BackendOrder == <<"b1", "b2", "b3">>
Rank(n) == CHOOSE i \in 1 .. Len(BackendOrder) : BackendOrder[i] = n

\* the cell of a live object once the garbage is gone: the registered
\* backends by name, then the others in the order they were made
Cell(w, i) ==
    IF i \in Registered(w)
    THEN Cardinality({n \in DOMAIN w.backends :
                        Rank(n) <= Rank(CHOOSE m \in DOMAIN w.backends : w.backends[m] = i)})
    ELSE Cardinality(DOMAIN w.backends)
         + Cardinality({j \in Reachable(w) \ Registered(w) : j <= i})

Collect(w) ==
    LET live == DOMAIN w.heap \cap Reachable(w)
        cell == [i \in live |-> Cell(w, i)]
        from == [c \in {cell[i] : i \in live} |-> CHOOSE i \in live : cell[i] = c]
    IN  [w EXCEPT
           !.heap = [c \in DOMAIN from |-> w.heap[from[c]]],
           !.backends = [n \in DOMAIN @ |-> cell[@[n]]],
           !.volumes = [n \in DOMAIN @ |-> [@[n] EXCEPT !.bobj = cell[@]]],
           !.storageClasses = [sc \in DOMAIN @ |-> {<<cell[m[1]], m[2]>> : m \in @[sc]}]]

\* the state an operation leaves; a process that died, or whose bootstrap
\* failed, is replaced by a new one
Install(op, name, w) ==
    \E x \in {IF w.crashed \/ (op = "Bootstrap" /\ w.err) THEN Fresh(w) ELSE Collect(w)} :
    /\ backends' = x.backends
    /\ heap' = x.heap
    /\ storageClasses' = x.storageClasses
    /\ volumes' = x.volumes
    /\ bootstrapped' = x.bootstrapped
    /\ sBackends' = x.sBackends
    /\ sClasses' = x.sClasses
    /\ sVolumes' = x.sVolumes
    /\ sTxns' = x.sTxns
    /\ array' = x.array
    /\ faults' = x.faults
    /\ last' = [op |-> op, name |-> name, err |-> w.err, found |-> w.found,
                ret |-> w.ret, crashed |-> w.crashed, calls |-> w.calls,
                req |-> w.req, msgs |-> w.msgs]

Threads == {"t1", "t2"}

\* a caller that is in no operation
Idle ==
    [pc |-> "idle", op |-> None, name |-> None, cfg |-> {},
     calls |-> <<>>, held |-> {}, detached |-> FALSE]

\* an operation of the only caller: nobody else is in the orchestrator
Commit(op, name, w) ==
    /\ \A t \in Threads : threads[t].pc = "idle"
    /\ Install(op, name, w)
    /\ UNCHANGED <<mutex, threads>>

Init ==
    /\ backends = Empty
    /\ heap = Empty
    /\ storageClasses = Empty
    /\ volumes = Empty
    /\ bootstrapped = FALSE
    /\ sBackends = Empty
    /\ sClasses = {}
    /\ sVolumes = Empty
    /\ sTxns = {}
    /\ array = {}
    /\ faults = 0
    /\ mutex = None
    /\ threads = [t \in Threads |-> Idle]
    /\ last = [op |-> "New", name |-> None, err |-> FALSE, found |-> FALSE,
               ret |-> {}, crashed |-> FALSE, calls |-> <<>>, req |-> {},
               msgs |-> <<>>]

DoBootstrap ==
    /\ ~bootstrapped
    /\ \E w \in Bootstrap(World) : Commit("Bootstrap", None, w)

DoCrash ==
    /\ bootstrapped
    /\ faults < MaxFaults
    /\ Commit("Crash", None, [World EXCEPT !.crashed = TRUE, !.faults = @ + 1])

DoAddStorageBackend(names, cfgs) ==
    /\ bootstrapped
    /\ \E name \in names, cfg \in cfgs :
         \E w \in AddStorageBackend([World EXCEPT !.req = {cfg}], name, cfg) :
            Commit("AddStorageBackend", name, w)

DoOfflineBackend(names) ==
    /\ bootstrapped
    /\ \E name \in names :
         \E w \in OfflineBackend(World, name) : Commit("OfflineBackend", name, w)

DoAddStorageClass(classes) ==
    /\ bootstrapped
    /\ \E sc \in classes :
         \E w \in AddStorageClass(World, sc) : Commit("AddStorageClass", sc, w)

DoDeleteStorageClass(classes) ==
    /\ bootstrapped
    /\ \E sc \in classes :
         \E w \in DeleteStorageClass(World, sc) : Commit("DeleteStorageClass", sc, w)

DoAddVolume(requests) ==
    /\ bootstrapped
    /\ \E cfg \in requests :
         \E w \in AddVolume([World EXCEPT !.req = {cfg}], cfg) :
            Commit("AddVolume", cfg.name, w)

DoDeleteVolume(names) ==
    /\ bootstrapped
    /\ \E name \in names :
         \E w \in DeleteVolume(World, name) : Commit("DeleteVolume", name, w)

Next ==
    \/ DoBootstrap
    \/ DoCrash
    \/ DoAddStorageBackend(BackendNames, SpecConfigs)
    \/ DoOfflineBackend(BackendNames)
    \/ DoAddStorageClass(SpecClasses)
    \/ DoDeleteStorageClass(SpecClasses)
    \/ DoAddVolume(SpecRequests)
    \/ DoDeleteVolume(SpecVolumes)

Spec == Init /\ [][Next]_vars

----------------------------------------------------------------------------
(* Vocabulary of the properties *)

\* the external calls of the last operation
Calls(call) == {i \in 1 .. Len(last.calls) : last.calls[i].call = call}
Succeeded(call) == {i \in Calls(call) : last.calls[i].ok}
Failed(call) == {i \in Calls(call) : ~last.calls[i].ok}
\* no call of the last operation failed (a key-not-found reply is a failure)
NoFailure == \A i \in 1 .. Len(last.calls) : last.calls[i].ok

\* the last operation ran to its return
Returned(op) == last.op = op /\ ~last.crashed

AddTxn(n) == Txn(OpAddVolume, n)
DelTxn(n) == Txn(OpDeleteVolume, n)

InCatalog(n) == n \in DOMAIN volumes
InStore(n) == n \in DOMAIN sVolumes
OnArray(b, n) == <<b, n>> \in array
OnAnyArray(n) == \E b \in BackendNames : OnArray(b, n)
OnOnlineArray(n) ==
    \E b \in DOMAIN backends : heap[backends[b]].online /\ OnArray(b, n)
HostName(n) == heap[volumes[n].bobj].name
InPoolMap(n) ==
    /\ volumes[n].pool \in DOMAIN heap[volumes[n].bobj].pools
    /\ n \in DOMAIN heap[volumes[n].bobj].pools[volumes[n].pool].vols

----------------------------------------------------------------------------
(* Crash atomicity of volume creation *)

PresentEverywhere(n) == InCatalog(n) /\ InStore(n) /\ OnArray(HostName(n), n)
PresentNowhere(n) == ~InCatalog(n) /\ ~InStore(n) /\ ~OnOnlineArray(n)

\* the process died inside AddVolume after the transaction was persisted
DiedInAddVolume ==
    last.op = "AddVolume" /\ last.crashed /\ Succeeded("AddVolumeTransaction") # {}

\* C1: when the process dies inside AddVolume after the AddVolume transaction
\* was persisted and the bootstrap that follows completes successfully, no
\* transaction for the name is left in the store and the volume is either in
\* all of catalog, store and hosting backend, or in none of catalog, store and
\* any online backend.
C1_CrashAtomicCreate ==
    [][DiedInAddVolume /\ Returned("Bootstrap")' /\ ~last'.err
         => /\ TxnsFor(sTxns', last.name) = {}
            /\ PresentEverywhere(last.name)' \/ PresentNowhere(last.name)']_vars

----------------------------------------------------------------------------
(* Structural invariants of the catalog *)

\* C2: once bootstrapped, between operations the names of the catalog are the
\* names of the volumes in the store, whatever calls failed in the operations
\* before.
C2_CatalogMatchesStore ==
    bootstrapped => DOMAIN volumes = DOMAIN sVolumes

\* C3: a volume of the catalog references a backend of the registry, a pool of
\* that backend, and is in the volume map of that pool.
C3_VolumePlaced ==
    \A n \in DOMAIN volumes :
        /\ HostName(n) \in DOMAIN backends
        /\ backends[HostName(n)] = volumes[n].bobj
        /\ InPoolMap(n)

\* DeleteVolume persisted its transaction over the AddVolume transaction
\* recorded for the same name
DeleteOverAdd ==
    /\ last.op = "DeleteVolume"
    /\ \E i \in Succeeded("AddVolumeTransaction") : last.calls[i].b = OpAddVolume

\* C4: the store holds at most one transaction for a volume name, and
\* DeleteVolume never adds its transaction for a name whose AddVolume
\* transaction is outstanding.
C4_OneTxnPerName ==
    /\ \A n \in VolumeNames : Cardinality(TxnsFor(sTxns, n)) <= 1
    /\ ~DeleteOverAdd

----------------------------------------------------------------------------
(* AddVolume: recovery and rollback *)

At(i) == last.calls[i]
After(i) == i + 1 .. Len(last.calls)

\* AddVolume returned after the backend created the volume and the store
\* refused to record it
StoreWriteRefused == Returned("AddVolume") /\ Failed("store.AddVolume") # {}

\* what the recovery function then calls
RecoveryCalls ==
    \A i \in Failed("store.AddVolume") :
        /\ i + 1 <= Len(last.calls)
        /\ At(i + 1).call = "backend.RemoveVolume"
        /\ At(i + 1).v = last.name /\ At(i + 1).b = At(i).b
        /\ At(i + 1).ok =>
            /\ i + 2 <= Len(last.calls)
            /\ At(i + 2).call = "DeleteVolumeTransaction"
            /\ At(i + 2).op = OpAddVolume /\ At(i + 2).v = last.name

\* the recovery calls succeeded
Recovered ==
    StoreWriteRefused /\ \A i \in Failed("store.AddVolume") : \A j \in After(i) : At(j).ok

\* the volume the recovery removed is nowhere
Gone ==
    /\ TxnsFor(sTxns, last.name) = {}
    /\ ~InCatalog(last.name) /\ ~InStore(last.name)
    /\ \A i \in Failed("store.AddVolume") : ~OnArray(At(i).b, last.name)

\* C5: when in AddVolume the backend creates the volume and the store write
\* fails, the recovery calls backend.RemoveVolume for the volume and, that
\* succeeding, deletes the AddVolume transaction; the volume is then in none of
\* catalog, store and backend, and an AddVolume of the same name that follows
\* without failures succeeds.
C5_StoreWriteRecovery ==
    [][/\ (StoreWriteRefused => RecoveryCalls)'
       /\ (Recovered => Gone)'
       /\ Recovered /\ Returned("AddVolume")' /\ last'.name = last.name /\ NoFailure'
            => ~last'.err /\ InCatalog(last.name)']_vars

\* the AddVolume transaction was persisted and a call of the recovery
\* function failed
RecoveryFailed ==
    /\ Returned("AddVolume")
    /\ \E i \in Succeeded("AddVolumeTransaction") : \E j \in After(i) :
          /\ ~At(j).ok
          /\ At(j).call \in {"backend.RemoveVolume", "DeleteVolumeTransaction"}

\* C6: when backend.RemoveVolume or the transaction delete of AddVolume's
\* recovery fails, AddVolume returns with its transaction still in the store,
\* no catalog entry for the name, no snapshot, and an error.
C6_RecoveryFailure ==
    RecoveryFailed =>
        /\ AddTxn(last.name) \in sTxns
        /\ ~InCatalog(last.name)
        /\ last.ret = {}
        /\ last.err

C6_Witness ==
    /\ RecoveryFailed
    /\ Failed("DeleteVolumeTransaction") # {}
    /\ Succeeded("store.AddVolume") # {}
    /\ AddTxn(last.name) \in sTxns

\* AddVolume found a transaction recorded for the name
FoundTxn ==
    /\ Returned("AddVolume")
    /\ Succeeded("GetExistingVolumeTransaction") # {}
    /\ At(1).op # None

\* the calls of the rollback of the transaction found
RollbackCalls ==
    {"Destroy", "backend.RemoveVolume", "store.DeleteVolumeIgnoreNotFound",
     "store.DeleteBackend", "DeleteVolumeTransaction"}

\* the call that completes the rollback: the old transaction is deleted
RollbackDone(k) ==
    /\ k \in Succeeded("DeleteVolumeTransaction")
    /\ At(k).op = At(1).op
    /\ \A j \in 2 .. k : At(j).call \in RollbackCalls
    /\ \A j \in 2 .. k - 1 : At(j).ok

RollbackFailed ==
    FoundTxn /\ \E k \in 2 .. Len(last.calls) :
        /\ ~At(k).ok
        /\ \A j \in 2 .. k : At(j).call \in RollbackCalls
        /\ \A j \in 2 .. k - 1 : At(j).ok /\ At(j).call # "DeleteVolumeTransaction"

\* C7: AddVolume completes the rollback of a transaction it finds for the name
\* before it persists its own transaction and before any backend create; when
\* the rollback fails it returns an error, persists no transaction, calls no
\* backend create and leaves the old transaction in the store.
C7_RollbackFirst ==
    /\ FoundTxn =>
          \A j \in Calls("AddVolumeTransaction") \cup Calls("backend.AddVolume") :
              \E k \in 2 .. j - 1 : RollbackDone(k)
    /\ RollbackFailed =>
          /\ last.err
          /\ Calls("AddVolumeTransaction") = {}
          /\ Calls("backend.AddVolume") = {}
          /\ Txn(At(1).op, last.name) \in sTxns

C7_Witness ==
    /\ FoundTxn
    /\ Failed("Destroy") # {}
    /\ Txn(At(1).op, last.name) \in sTxns

----------------------------------------------------------------------------
(* DeleteVolume: failures and retries *)

\* DeleteVolume returned after the backend refused to remove the volume
RemoveRefused == Returned("DeleteVolume") /\ Failed("backend.RemoveVolume") # {}

\* C8: when backend.RemoveVolume fails in DeleteVolume, the call returns the
\* error, its transaction stays in the store, and the volume stays in the
\* catalog, in the volume map of its pool and in the store.
C8_RemoveFailure ==
    [][RemoveRefused' =>
         /\ (last.err /\ DelTxn(last.name) \in sTxns /\ InCatalog(last.name))'
         /\ InCatalog(last'.name) /\ InPoolMap(last'.name) => InPoolMap(last.name)'
         /\ InStore(last'.name) => InStore(last.name)']_vars

C8_Witness ==
    /\ RemoveRefused
    /\ InCatalog(last.name) /\ InPoolMap(last.name) /\ InStore(last.name)
    /\ DelTxn(last.name) \in sTxns

\* DeleteVolume removed the volume everywhere and could not clear its
\* transaction
ClearRefused == Returned("DeleteVolume") /\ Failed("DeleteVolumeTransaction") # {}

Deleted(n) ==
    /\ ~InCatalog(n) /\ ~InStore(n) /\ ~OnOnlineArray(n)
    /\ TxnsFor(sTxns, n) = {}

\* C10: once a step of DeleteVolume failed after its transaction was
\* persisted, a DeleteVolume of the name that finds the volume, and a
\* bootstrap, complete the deletion when no call fails any more: the volume is
\* out of catalog, store and backend and no transaction is left for it.
C10_DeletionCompletes ==
    [][\A n \in VolumeNames :
          /\ DelTxn(n) \in sTxns
          /\ NoFailure'
          /\ \/ Returned("DeleteVolume")' /\ last'.name = n /\ InCatalog(n)
             \/ Returned("Bootstrap")'
          => Deleted(n)']_vars

----------------------------------------------------------------------------
(* Placement: backends of both protocols, requests of every access mode *)

PlacementConfigs == {CfgSsd, CfgBlk}
PlacementRequests ==
    {VolumeConfig("v1", "gold", ProtocolAny, am) :
        am \in {ReadWriteOnce, ReadOnlyMany, ReadWriteMany}}

NextPlacement ==
    \/ DoBootstrap
    \/ DoAddStorageBackend(BackendNames, PlacementConfigs)
    \/ DoAddStorageClass(SpecClasses)
    \/ DoAddVolume(PlacementRequests)
    \/ DoDeleteVolume(SpecVolumes)

SpecPlacement == Init /\ [][NextPlacement]_vars

\* the request of the last AddVolume
Request == CHOOSE c \in last.req : TRUE

\* the protocol section 4.4 makes the request's effective protocol
Effective(c) ==
    IF c.protocol = ProtocolAny THEN getProtocol(c.accessMode) ELSE c.protocol

\* the backends AddVolume asked to create the volume
Asked == {At(i).b : i \in Calls("backend.AddVolume")}

\* the backends whose pools the class returns for a protocol
ClassBackends(sc, p) ==
    IF sc \in DOMAIN storageClasses
    THEN {heap[m[1]].name : m \in GetStoragePoolsForProtocol(World, sc, p)}
    ELSE {}

\* C11: AddVolume takes its candidate pools from the class by the effective
\* protocol of the request: a request for any protocol with access mode
\* ReadOnlyMany or ReadWriteMany is only ever tried on pools the class returns
\* for File, one with ReadWriteOnce on pools the class returns for Any.
C11_EffectiveProtocol ==
    Returned("AddVolume") /\ last.req # {}
        => Asked \subseteq ClassBackends(Request.storageClass, Effective(Request))

----------------------------------------------------------------------------
(* Concurrent callers *)

ConcurrentNames == {"b1"}

\* the operations that take o.mutex on entry and release it on return
LockedCalls ==
    {[op |-> "AddStorageBackend", name |-> n, cfg |-> {c}] :
        n \in ConcurrentNames, c \in SpecConfigs}
    \cup {[op |-> "AddStorageClass", name |-> sc, cfg |-> {}] : sc \in SpecClasses}

\* the body of an operation that holds the mutex
Body(w, call) ==
    IF call.op = "AddStorageBackend"
    THEN AddStorageBackend(w, call.name, CHOOSE c \in call.cfg : TRUE)
    ELSE AddStorageClass(w, call.name)

\* the pools of a class object a caller still holds, in the cells of the
\* collected heap
Rehome(w, held) ==
    {<<Cell(w, m[1]), m[2]>> : m \in {h \in held : h[1] \in DOMAIN w.heap \cap Reachable(w)}}

\* the callers once caller t has returned; nobody survives the process
Survivors(w, t) ==
    [u \in Threads |->
        IF w.crashed \/ u = t THEN Idle
        ELSE [threads[u] EXCEPT !.held = Rehome(w, @)]]

\* o.mutex.Lock() on entry
Lock(t) ==
    /\ bootstrapped
    /\ threads[t].pc = "idle"
    /\ mutex = None
    /\ \E call \in LockedCalls :
         threads' = [threads EXCEPT ![t] = [Idle EXCEPT !.pc = "locked", !.op = call.op,
                                                     !.name = call.name, !.cfg = call.cfg]]
    /\ mutex' = t
    /\ UNCHANGED <<backends, heap, storageClasses, volumes, bootstrapped,
                   sBackends, sClasses, sVolumes, sTxns, array, last, faults>>

\* the operation itself, and the deferred o.mutex.Unlock()
Unlock(t) ==
    /\ threads[t].pc = "locked"
    /\ \E w \in Body(World, threads[t]) :
         /\ Install(threads[t].op, threads[t].name, w)
         /\ threads' = Survivors(w, t)
    /\ mutex' = None

\* DeleteStorageClass, which takes no lock: the look-up of the class
LookUpClass(t) ==
    /\ bootstrapped
    /\ threads[t].pc = "idle"
    /\ \E sc \in SpecClasses :
         IF sc \in DOMAIN storageClasses
         THEN /\ threads' = [threads EXCEPT ![t] = [Idle EXCEPT !.pc = "found",
                                  !.op = "DeleteStorageClass", !.name = sc]]
              /\ UNCHANGED <<backends, heap, storageClasses, volumes, bootstrapped,
                             sBackends, sClasses, sVolumes, sTxns, array, last, faults>>
         ELSE /\ Install("DeleteStorageClass", sc, [World EXCEPT !.err = TRUE])
              /\ threads' = Survivors(World, t)
    /\ UNCHANGED mutex

\* DeleteStorageClass: the class is deleted from the store
DeleteFromStore(t) ==
    /\ threads[t].pc = "found"
    /\ \E w \in StoreDeleteStorageClass([World EXCEPT !.found = TRUE], threads[t].name) :
         IF w.crashed \/ w.err
         THEN /\ Install("DeleteStorageClass", threads[t].name, w)
              /\ threads' = Survivors(w, t)
              /\ mutex' = IF w.crashed THEN None ELSE mutex
         ELSE /\ sClasses' = w.sClasses
              /\ faults' = w.faults
              /\ threads' = [threads EXCEPT ![t].pc = "stored", ![t].calls = w.calls]
              /\ UNCHANGED <<backends, heap, storageClasses, volumes, bootstrapped,
                             sBackends, sVolumes, sTxns, array, last, mutex>>

\* the pools of the class object caller t looked up
HeldPools(t) ==
    IF threads[t].detached THEN threads[t].held ELSE storageClasses[threads[t].name]

\* the callers that hold the class object the map is about to lose
Detached(t) ==
    [u \in Threads |->
        IF /\ u # t
           /\ threads[u].pc \in {"found", "stored"}
           /\ threads[u].name = threads[t].name
           /\ ~threads[u].detached
        THEN [threads[u] EXCEPT !.detached = TRUE, !.held = storageClasses[threads[t].name]]
        ELSE threads[u]]

\* DeleteStorageClass: the class leaves the map and its pools forget it
RemoveClass(t) ==
    /\ threads[t].pc = "stored"
    /\ \E w \in {[World EXCEPT
                    !.found = TRUE,
                    !.calls = threads[t].calls,
                    !.storageClasses = Del(@, threads[t].name),
                    !.heap = [i \in DOMAIN @ |-> [@[i] EXCEPT !.pools = [p \in DOMAIN @ |->
                                IF <<i, p>> \in HeldPools(t)
                                THEN [@[p] EXCEPT !.classes = @ \ {threads[t].name}]
                                ELSE @[p]]]]]} :
         /\ Install("DeleteStorageClass", threads[t].name, w)
         /\ threads' = [u \in Threads |->
                          IF u = t THEN Idle
                          ELSE [Detached(t)[u] EXCEPT !.held = Rehome(w, @)]]
    /\ UNCHANGED mutex

\* the Go runtime ends the process when it finds the map written by one
\* caller while another is in an operation
MapRace(t) ==
    /\ threads[t].pc = "stored"
    /\ \E u \in Threads \ {t} : threads[u].pc \in {"locked", "stored"}
    /\ Install("DeleteStorageClass", threads[t].name,
               [World EXCEPT !.crashed = TRUE, !.calls = threads[t].calls])
    /\ threads' = [u \in Threads |-> Idle]
    /\ mutex' = None

NextConcurrent ==
    \/ DoBootstrap
    \/ \E t \in Threads : Lock(t)
    \/ \E t \in Threads : Unlock(t)
    \/ \E t \in Threads : LookUpClass(t)
    \/ \E t \in Threads : DeleteFromStore(t)
    \/ \E t \in Threads : RemoveClass(t)
    \/ \E t \in Threads : MapRace(t)

SpecConcurrent == Init /\ [][NextConcurrent]_vars

\* the callers that are inside a public operation
Inside == {t \in Threads : threads[t].pc # "idle"}

\* C12: a caller that is inside a public operation, from its first access to
\* the catalogs to its return, holds the global lock, so that no two callers
\* are ever inside public operations at the same time.
C12_GlobalLock ==
    /\ \A t \in Inside : mutex = t
    /\ Cardinality(Inside) <= 1

----------------------------------------------------------------------------
(* Offline backends *)

\* the registered backends that are offline
Offline == {b \in DOMAIN backends : ~heap[backends[b]].online}

\* C13: once a public operation has returned, a failed store call or not,
\* every backend of the registry that is offline hosts at least one volume.
C13_OfflineHostsVolumes ==
    \A b \in Offline : HasVolumes(heap[backends[b]])

----------------------------------------------------------------------------
(* Deleting the volumes of an offline backend: two volumes on one backend *)

OfflineNames == {"b1"}
OfflineVolumes == {"v1", "v2"}
OfflineRequests ==
    {VolumeConfig(n, sc, ProtocolAny, ReadWriteOnce) : n \in OfflineVolumes, sc \in SpecClasses}

NextOffline ==
    \/ DoBootstrap
    \/ DoAddStorageBackend(OfflineNames, SpecConfigs)
    \/ DoOfflineBackend(OfflineNames)
    \/ DoAddStorageClass(SpecClasses)
    \/ DoAddVolume(OfflineRequests)
    \/ DoDeleteVolume(OfflineVolumes)

SpecOffline == Init /\ [][NextOffline]_vars

\* the backend object a volume of the catalog refers to
Host(n) == heap[volumes[n].bobj]

\* the volumes in the pools of a backend object
Hosted(b) == UNION {DOMAIN b.pools[p].vols : p \in DOMAIN b.pools}

\* the volume is the last one of a backend that is offline
LastOfOffline(n) == ~Host(n).online /\ Hosted(Host(n)) \subseteq {n}

DeleteSucceeded == Returned("DeleteVolume") /\ ~last.err

----------------------------------------------------------------------------
(* Updating a backend: configurations that differ in protocol and pools *)

UpdateNames == {"b1"}
UpdateConfigs == {CfgSsd, CfgHdd, CfgBlk, CfgAlt}

NextUpdate ==
    \/ DoBootstrap
    \/ DoAddStorageBackend(UpdateNames, UpdateConfigs)
    \/ DoAddStorageClass(SpecClasses)
    \/ DoDeleteStorageClass(SpecClasses)
    \/ DoAddVolume(SpecRequests)
    \/ DoDeleteVolume(SpecVolumes)

SpecUpdate == Init /\ [][NextUpdate]_vars

\* the configuration handed to the last AddStorageBackend
NewConfig == CHOOSE c \in last.req : TRUE

\* the pools of a backend that hold a volume
UsedPools(b) == {p \in DOMAIN b.pools : DOMAIN b.pools[p].vols # {}}

ProtocolChanged(b, cfg) == b.protocol # cfg.protocol
PoolOmitted(b, cfg) == UsedPools(b) \ DOMAIN cfg.pools # {}
ClassUnsatisfied(b, cfg) ==
    \E p \in UsedPools(b) \cap DOMAIN cfg.pools : \E n \in DOMAIN b.pools[p].vols :
        ~Matches(b.pools[p].vols[n].storageClass, [media |-> cfg.pools[p]])

\* AddStorageBackend returned after it had parsed a configuration for a name
\* that is registered
UpdateReturned ==
    /\ Returned("AddStorageBackend")
    /\ Succeeded("NewStorageBackendForConfig") # {}

\* C15: AddStorageBackend for a registered name fails when the new
\* configuration changes the protocol, lacks a pool that holds a volume, or
\* has a pool that no longer satisfies the storage class of a volume it
\* holds; the failure leaves the registry, the classes, the volumes and the
\* store as they were.
C15_InvalidUpdate ==
    [][/\ UpdateReturned'
       /\ last'.name \in DOMAIN backends
       /\ \E b \in {heap[backends[last'.name]]} :
             \/ ProtocolChanged(b, NewConfig')
             \/ PoolOmitted(b, NewConfig')
             \/ ClassUnsatisfied(b, NewConfig')
       => /\ last'.err
          /\ UNCHANGED <<backends, heap, storageClasses, volumes,
                         sBackends, sClasses, sVolumes, sTxns>>]_vars

\* an update was refused because pool p1, which holds the volume, would no
\* longer satisfy the volume's storage class
C15_Witness ==
    /\ UpdateReturned
    /\ last.err
    /\ NoFailure
    /\ NewConfig = CfgHdd
    /\ "b1" \in DOMAIN backends
    /\ UsedPools(heap[backends["b1"]]) = {"p1"}
    /\ ~ProtocolChanged(heap[backends["b1"]], NewConfig)

----------------------------------------------------------------------------
(* Errors during bootstrap *)

IndexReads == {"GetBackends", "GetStorageClasses", "GetVolumes", "GetVolumeTransactions"}

\* the calls of the last operation that the store answered with key-not-found
\* for a whole index
KeyNotFound ==
    {i \in 1 .. Len(last.calls) : At(i).call \in IndexReads /\ At(i).op = "KeyError"}

\* the failed calls that make a step of bootstrap return another error; an
\* expired deadline of GetBackends is retried
HardFailures ==
    {i \in 1 .. Len(last.calls) : ~At(i).ok /\ At(i).op # "DeadlineExceeded"} \ KeyNotFound

\* bootstrap went on after the key-not-found error of call i: the next step
\* made its call, or there was no next step and nothing else went wrong
WentOn(i) ==
    IF At(i).call = "GetVolumeTransactions"
    THEN i = Len(last.calls) => ~last.err
    ELSE i < Len(last.calls)

\* C16: an error of any of the four steps of bootstrap ends it and Bootstrap
\* returns an error, a failed read of the outstanding transactions included,
\* unless the error is the store's key-not-found error, after which bootstrap
\* goes on with the next step.
C16_BootstrapAborts ==
    Returned("Bootstrap") =>
        /\ HardFailures # {} => last.err
        /\ \A i \in KeyNotFound : WentOn(i)

----------------------------------------------------------------------------
(* Bootstrap with an outstanding AddVolume transaction *)

\* the names with an AddVolume transaction and no volume record in the store
Outstanding == {n \in VolumeNames : AddTxn(n) \in sTxns /\ n \notin DOMAIN sVolumes}

\* the backends of the store by their Online flag
StoredOnline == {b \in DOMAIN sBackends : sBackends[b].online}
StoredOffline == {b \in DOMAIN sBackends : ~sBackends[b].online}

\* the backends whose driver was asked to destroy the volume
DestroyAsked(n) == {At(i).b : i \in {j \in Calls("Destroy") : At(j).v = n}}
DestroyFailed(n) == \E i \in Failed("Destroy") : At(i).v = n

\* C17: when bootstrap starts with an AddVolume transaction for a name
\* without a volume record in the store, a successful bootstrap has asked
\* every online backend, and no offline one, to destroy the volume and has
\* deleted the transaction; if a Destroy fails, bootstrap fails and the
\* transaction stays.
C17_RollbackAtBootstrap ==
    [][~bootstrapped /\ Returned("Bootstrap")' =>
         \A n \in Outstanding :
            /\ ~last'.err => /\ StoredOnline \subseteq (DestroyAsked(n))'
                             /\ StoredOffline \cap (DestroyAsked(n))' = {}
                             /\ AddTxn(n) \notin sTxns'
            /\ (DestroyFailed(n))' => last'.err /\ AddTxn(n) \in sTxns']_vars

----------------------------------------------------------------------------
(* AddVolume when no pool takes the volume *)

\* the calls of backend.AddVolume that returned an error, in their order
Refusals ==
    SelectSeq(last.calls,
              LAMBDA e : e.call = "backend.AddVolume" /\ ~e.ok /\ e.op # "nil")

\* AddVolume returned after every candidate pool had refused the volume
AllRejected ==
    /\ Returned("AddVolume")
    /\ Calls("backend.AddVolume") # {}
    /\ Succeeded("backend.AddVolume") = {}

\* errorMessages has one entry for each refusal, naming its pool and backend
OneMessageEach ==
    /\ Len(last.msgs) = Len(Refusals)
    /\ \A k \in 1 .. Len(last.msgs) :
          /\ last.msgs[k].backend = Refusals[k].b
          /\ last.msgs[k].pool = Refusals[k].op
          /\ last.msgs[k].volume = last.name

\* C18: when every candidate pool refuses the volume, AddVolume returns an
\* error made of one message for each pool that failed, naming its backend;
\* afterwards neither the catalog nor the store holds a volume or a
\* transaction of that name, and backend.RemoveVolume was not called.
C18_AllPoolsRejected ==
    AllRejected =>
        /\ last.err
        /\ OneMessageEach
        /\ ~InCatalog(last.name)
        /\ ~InStore(last.name)
        /\ TxnsFor(sTxns, last.name) = {}
        /\ Calls("backend.RemoveVolume") = {}

----------------------------------------------------------------------------
(* AddVolume when it succeeds *)

AddSucceeded == Returned("AddVolume") /\ ~last.err

\* the pools of the class of the request, and the one the volume is in
Candidates == storageClasses[Request.storageClass]
Placed(n) == <<volumes[n].bobj, volumes[n].pool>>

\* C19: after a successful AddVolume the volume was created on exactly one
\* pool of its class, it is in the catalog and in the store, the store holds
\* no transaction of its name, and no other candidate pool has a copy of it.
C19_SuccessfulCreate ==
    AddSucceeded =>
        /\ Cardinality(Succeeded("backend.AddVolume")) = 1
        /\ InCatalog(last.name)
        /\ Placed(last.name) \in Candidates
        /\ InStore(last.name)
        /\ sVolumes[last.name].backend = HostName(last.name)
        /\ sVolumes[last.name].pool = volumes[last.name].pool
        /\ TxnsFor(sTxns, last.name) = {}
        /\ \A m \in Candidates \ {Placed(last.name)} :
              ~OnArray(heap[m[1]].name, last.name)

----------------------------------------------------------------------------
(* Rolling a transaction back twice *)

Transactions == {Txn(op, n) : op \in {OpAddVolume, OpDeleteVolume}, n \in SpecVolumes}

RolledBack == Returned("rollBackTransaction")

\* rollBackTransaction ran to its end for transaction v without a failing call
RolledBackOnce(v) == RolledBack /\ NoFailure /\ ~last.err /\ last.req = {v}

\* the same within a bootstrap: the rollback of v was the only one and the
\* last thing bootstrap did
RolledBackAtBootstrap(v) ==
    /\ Returned("Bootstrap") /\ NoFailure /\ ~last.err
    /\ Cardinality(Calls("DeleteVolumeTransaction")) = 1
    /\ \E i \in Calls("DeleteVolumeTransaction") :
          i = Len(last.calls) /\ At(i).v = v.name /\ At(i).op = v.op

FirstRun(v) == RolledBackOnce(v) \/ RolledBackAtBootstrap(v)

\* rollBackTransaction under the lock, as bootstrapVolTxns and AddVolume
\* call it for a transaction of the log, or once more for the transaction
\* that has just been rolled back
DoRollBack(txns) ==
    /\ bootstrapped
    /\ \E v \in txns :
         /\ v \in sTxns \/ FirstRun(v) \/ (RolledBack /\ last.req = {v})
         /\ \E w \in rollBackTransaction([World EXCEPT !.req = {v}], v) :
              Commit("rollBackTransaction", v.name, w)

NextTwice ==
    \/ DoBootstrap
    \/ DoAddStorageBackend(BackendNames, SpecConfigs)
    \/ DoOfflineBackend(BackendNames)
    \/ DoAddStorageClass(SpecClasses)
    \/ DoAddVolume(SpecRequests)
    \/ DoDeleteVolume(SpecVolumes)
    \/ DoRollBack(Transactions)

SpecTwice == Init /\ [][NextTwice]_vars

\* no call of the last operation failed, but for deletes of records the
\* store no longer holds
NothingInjected == \A i \in 1 .. Len(last.calls) : At(i).ok \/ At(i).op = "KeyError"

\* C20: rollback is idempotent: when rollBackTransaction has run without a
\* failing call, running it once more for the same transaction, again with
\* no call failing (the transaction being gone from the log apart), leaves
\* the catalog, the store, the volumes of the backends and the transaction
\* log as the first run left them.
C20_RollbackIdempotent ==
    [][(\E v \in Transactions : FirstRun(v) /\ last'.req = {v}) /\ (RolledBack /\ NothingInjected)'
         => UNCHANGED <<backends, heap, storageClasses, volumes,
                        sBackends, sClasses, sVolumes, sTxns, array>>]_vars
----------------------------------------------------------------------------
(* AddVolume followed at once by DeleteVolume *)

\* a caller that creates a volume and, the creation having succeeded, deletes
\* it before any other operation
AddThenDelete(w, cfg) ==
    Bind({w1 \in AddVolume(w, cfg) : w1.crashed \/ ~w1.err}, LAMBDA w1:
        DeleteVolume(w1, cfg.name))

DoAddThenDelete(requests) ==
    /\ bootstrapped
    /\ \E cfg \in requests :
         \E w \in AddThenDelete([World EXCEPT !.req = {cfg}], cfg) :
            Commit("AddVolume;DeleteVolume", cfg.name, w)

NextRoundTrip ==
    \/ DoBootstrap
    \/ DoAddStorageBackend(BackendNames, SpecConfigs)
    \/ DoOfflineBackend(BackendNames)
    \/ DoAddStorageClass(SpecClasses)
    \/ DoAddVolume(SpecRequests)
    \/ DoDeleteVolume(SpecVolumes)
    \/ DoAddThenDelete(SpecRequests)

SpecRoundTrip == Init /\ [][NextRoundTrip]_vars

\* both operations returned without an error
RoundTrip == Returned("AddVolume;DeleteVolume") /\ last.found /\ ~last.err

\* C21: a successful AddVolume followed at once by a successful DeleteVolume
\* of the same name leaves the backend registry, the pools' volume maps, the
\* storage classes' pools, the catalog, and the volumes, backends and
\* transactions of the store as they were before the AddVolume.
C21_AddThenDelete ==
    [][RoundTrip' => UNCHANGED <<backends, heap, storageClasses, volumes,
                                 sVolumes, sBackends, sTxns>>]_vars
----------------------------------------------------------------------------
(* The pools of the storage classes *)

\* <<class, <<backend object, pool>>>> for every pool a class lists
ClassPools ==
    UNION {{<<sc, m>> : m \in storageClasses[sc]} : sc \in DOMAIN storageClasses}

\* the operations that compute the pools of the classes
MembershipOps ==
    {"AddStorageBackend", "OfflineBackend", "AddStorageClass", "DeleteStorageClass",
     "Bootstrap"}

\* the pool is one of a backend object of the registry
OfRegistry(m) == m[1] \in Registered(World) /\ m[2] \in DOMAIN heap[m[1]].pools

\* C22: when AddStorageBackend, OfflineBackend, AddStorageClass,
\* DeleteStorageClass or Bootstrap has returned, every pool a storage class
\* lists is a pool of a backend object of the registry (so not of an object
\* an update has replaced) and satisfies the predicate of the class.
C22_ClassPools ==
    last.op \in MembershipOps /\ ~last.crashed =>
        \A x \in ClassPools :
            /\ OfRegistry(x[2])
            /\ Matches(x[1], heap[x[2][1]].pools[x[2][2]])
----------------------------------------------------------------------------
(* Write-ahead ordering *)

VolumeOps == {"AddVolume", "DeleteVolume"}

\* the calls of the last operation that create or remove its volume on a
\* backend
BackendSide ==
    Calls("backend.AddVolume") \cup Calls("backend.RemoveVolume") \cup Calls("Destroy")

\* the calls of the last operation that wrote or deleted the transaction
TxnWrites == Succeeded("AddVolumeTransaction") \cup Succeeded("DeleteVolumeTransaction")

\* the store held a transaction of the volume when call j was made; before
\* says whether it held one when the operation began
TxnPresentAt(j, before) ==
    IF \E k \in TxnWrites : k < j
    THEN At(CHOOSE k \in TxnWrites : k < j /\ \A l \in TxnWrites : l < j => l <= k).call
            = "AddVolumeTransaction"
    ELSE before

WriteAhead(before) == \A j \in BackendSide : TxnPresentAt(j, before)

\* the operation could not persist its transaction
PersistFailed == last.op \in VolumeOps /\ Failed("AddVolumeTransaction") # {}

\* C23: within AddVolume and DeleteVolume, a backend is asked to create or
\* remove the volume only while the store holds a transaction of its name;
\* when the operation cannot persist its transaction it returns an error,
\* calls nothing after that, has asked no backend to create or remove the
\* volume on its own account, and leaves the catalog and the volumes of the
\* store as they were.
C23_WriteAhead ==
    [][last'.op \in VolumeOps =>
         /\ \E before \in {TxnsFor(sTxns, last'.name) # {}} : (WriteAhead(before))'
         /\ PersistFailed' =>
              /\ last'.err /\ ~last'.crashed
              /\ Failed("AddVolumeTransaction")' = {Len(last'.calls)}
              /\ Calls("backend.AddVolume")' = {} /\ Calls("backend.RemoveVolume")' = {}
              /\ UNCHANGED <<volumes, sVolumes>>]_vars

\* DeleteVolume could not persist its transaction: the volume is where it was
C23_Witness ==
    /\ Returned("DeleteVolume")
    /\ PersistFailed
    /\ last.err
    /\ InCatalog(last.name) /\ InPoolMap(last.name) /\ InStore(last.name)
    /\ OnArray(HostName(last.name), last.name)
----------------------------------------------------------------------------
(* Offline backends and placement *)

\* the pools a class lists whose backend object is offline
OfflineListed == {x \in ClassPools : ~heap[x[2][1]].online}

\* C24: no storage class lists a pool of a backend whose Online flag is
\* false, be it after the OfflineBackend that kept the backend, after a
\* bootstrap that restored it or after an AddStorageClass issued while it is
\* offline; so the backend of a volume AddVolume has just created is online.
C24_NoOfflineCandidates ==
    /\ OfflineListed = {}
    /\ AddSucceeded /\ InCatalog(last.name) => Host(last.name).online
----------------------------------------------------------------------------
(* The volumes of a backend that is updated *)

\* AddStorageBackend replaced the backend registered under its name
UpdateSucceeded ==
    /\ Returned("AddStorageBackend") /\ ~last.err
    /\ Succeeded("store.UpdateBackend") # {}

\* the volume of the catalog is the one in pool p of backend object id
Bound(n, id, p) == InCatalog(n) /\ volumes[n].bobj = id /\ volumes[n].pool = p

\* C25: after a successful AddStorageBackend that updates a backend, every
\* volume that was in a pool of the old backend is in the pool of that name
\* of the new backend, the volume of the catalog that referred to the old
\* backend and that pool refers to the new backend and its pool, and the
\* backend hosts the volumes it hosted before.
C25_VolumesFollowUpdate ==
    [][UpdateSucceeded' /\ last'.name \in DOMAIN backends =>
         /\ last'.name \in DOMAIN backends'
         /\ \E old \in {heap[backends[last'.name]]}, new \in {heap'[backends'[last'.name]]} :
              /\ \A p \in DOMAIN old.pools : \A n \in DOMAIN old.pools[p].vols :
                    /\ p \in DOMAIN new.pools
                    /\ n \in DOMAIN new.pools[p].vols
                    /\ Bound(n, backends[last'.name], p)
                          => (Bound(n, backends[last.name], p))'
              /\ Hosted(new) = Hosted(old)]_vars

\* the backend that hosts v1 was replaced and hosts it still
C25_Witness ==
    /\ UpdateSucceeded
    /\ last.name \in DOMAIN backends
    /\ Hosted(heap[backends[last.name]]) = {"v1"}
    /\ Bound("v1", backends[last.name], "p1")
----------------------------------------------------------------------------
(* Listing the volumes *)

OntapNAS == "ontap-nas"
OntapSAN == "ontap-san"
DriverNames == {OntapNAS, OntapSAN}

\* StorageBackend.GetDriverName: the driver of the backend's configuration
GetDriverName(b) == IF b.protocol = Block THEN OntapSAN ELSE OntapNAS

\* ListVolumes: the snapshots of the volumes of the catalog
ListVolumes(w) == {ConstructExternal(w, w.volumes[n]) : n \in DOMAIN w.volumes}

\* ListVolumesByPlugin: the snapshots of the volumes in the pools of the
\* registered backends of a driver
ListVolumesByPlugin(w, pluginName) ==
    UNION {UNION {{[cfg |-> w.heap[id].pools[p].vols[n], backend |-> w.heap[id].name,
                    pool |-> p] : n \in DOMAIN w.heap[id].pools[p].vols}
                  : p \in DOMAIN w.heap[id].pools}
           : id \in {i \in Registered(w) : GetDriverName(w.heap[i]) = pluginName}}

\* the names of the volumes of a list
NamesOf(list) == {v.cfg.name : v \in list}

\* C26: between the public operations, failed ones included, every volume in
\* a volume map of a pool of a registered backend is in the catalog under its
\* name, and ListVolumesByPlugin over all the drivers lists the volumes that
\* ListVolumes lists.
C26_ListsAgree ==
    /\ \A id \in Registered(World) : Hosted(heap[id]) \subseteq DOMAIN volumes
    /\ NamesOf(UNION {ListVolumesByPlugin(World, d) : d \in DriverNames})
          = NamesOf(ListVolumes(World))
====
